---- MODULE Spec2Model ----
(***************************************************************************)
(* Model of gen_bazel_benchmark (src/src/main.rs): the addressing of the   *)
(* nodes of a perfect n-ary tree (ID::new, ID::children, the derived       *)
(* paths and names), the emission of one package per node (handle_root,    *)
(* handle_node, write_objc_files) and the driver (main) that streams the   *)
(* node indices through for_each_concurrent(64, emit_build_file).          *)
(*                                                                         *)
(* Strings are TLA+ strings built with \o exactly as the format! calls     *)
(* build them, so that two paths are equal in the model iff the program    *)
(* produces the same text.                                                 *)
(*                                                                         *)
(* u64 values: within the bounds of this model every value the program     *)
(* computes is far below 2^31, with one exception: the subtraction         *)
(* `package_relative_index - 1` in ID::children leaves the u64 range when  *)
(* the position is 0 (the root); see children.                             *)
(***************************************************************************)
EXTENDS Integers, Sequences, FiniteSets, TLC

VARIABLES
    targets_per_level,  \* Args.targets_per_level
    height,             \* Args.height
    files_per_target,   \* Args.files_per_target
    node,               \* SpecAddr: the ID last built by ID::new
    kids,               \* SpecAddr: the result of node.children(), or NotCalled
    driver,             \* main's position
    next,               \* cursor of stream::iter(0..num_nodes)
    active,             \* number of futures held by for_each_concurrent
    task,               \* per node index: position of the task spawned by emit_build_file
    calls,              \* per node index: the handlers emit_build_file ran for it
    written             \* files created under the output root: [dir, name, by, deps]

vars == <<targets_per_level, height, files_per_target, node, kids,
          driver, next, active, task, calls, written>>

(***************************************************************************)
(* Bounds of the model.                                                    *)
(***************************************************************************)
MaxK == 3            \* SpecAddr: targets_per_level ranges over 2..MaxK
MaxDepth == 3        \* SpecAddr: height ranges over 0..MaxDepth

(***************************************************************************)
(* Pure helpers: integer power, decimal formatting ({} of a u64).          *)
(***************************************************************************)
RECURSIVE Pow(_, _)
Pow(b, e) == IF e <= 0 THEN 1 ELSE b * Pow(b, e - 1)

Digit(n) == <<"0", "1", "2", "3", "4", "5", "6", "7", "8", "9">>[n + 1]

RECURSIVE Dec(_)
Dec(n) == IF n < 10 THEN Digit(n) ELSE Dec(n \div 10) \o Digit(n % 10)

\* itertools intersperse(sep) followed by collect::<String>()
RECURSIVE Intersperse(_, _)
Intersperse(parts, sep) ==
    IF Len(parts) = 0 THEN ""
    ELSE IF Len(parts) = 1 THEN parts[1]
    ELSE parts[1] \o sep \o Intersperse(Tail(parts), sep)

\* PathBuf::join of a relative component: an empty base adds no separator
PathJoin(base, comp) == IF base = "" THEN comp ELSE base \o "/" \o comp

(***************************************************************************)
(* num_nodes_in_ntree: (k^(h+1) - 1) / (k - 1)                             *)
(***************************************************************************)
\* mutant of num_nodes_in_ntree: k^h in place of k^(h+1)
NumNodesPowOfHeight(k, h) == (Pow(k, h) - 1) \div (k - 1)

num_nodes_in_ntree(k, h) == (Pow(k, h + 1) - 1) \div (k - 1)

(***************************************************************************)
(* ID::new.  loop_parents is the `loop` of lines 237-245: it computes the  *)
(* parent index, pushes ID::new(parent) and only then tests for 0.         *)
(***************************************************************************)
RECURSIVE ID_new(_, _, _)
RECURSIVE loop_parents(_, _, _)
RECURSIVE LoopParentsRootNotPushed(_, _, _)
RECURSIVE LoopParentsNoMinusOne(_, _, _)

\* mutant of loop_parents: the test for 0 is made before the push
LoopParentsRootNotPushed(parent_id, k, md) ==
    LET p == (parent_id - 1) \div k
    IN  IF p = 0 THEN <<>>
        ELSE <<ID_new(p, k, md)>> \o LoopParentsRootNotPushed(p, k, md)

\* mutant of loop_parents: parent_id / k instead of (parent_id - 1) / k
LoopParentsNoMinusOne(parent_id, k, md) ==
    LET p == parent_id \div k
    IN  <<ID_new(p, k, md)>> \o
        (IF p = 0 THEN <<>> ELSE LoopParentsNoMinusOne(p, k, md))

loop_parents(parent_id, k, md) ==
    LET p == (parent_id - 1) \div k
    IN  <<ID_new(p, k, md)>> \o
        (IF p = 0 THEN <<>> ELSE loop_parents(p, k, md))

ID_new(id, k, md) ==
    LET parents == IF id # 0 THEN loop_parents(id, k, md) ELSE <<>>
        pri == IF id > 0
               THEN 1 + id - num_nodes_in_ntree(k, Len(parents) - 1)
               ELSE 0
    IN  [id |-> id,
         parents |-> parents,
         package_relative_index |-> pri,
         targets_per_level |-> k,
         max_depth |-> md]

(***************************************************************************)
(* Derived paths and names.                                                *)
(***************************************************************************)
package_path(self) ==
    Intersperse([i \in 1..Len(self.parents) |-> "pkg_" \o Dec(i)], "/")

\* mutant of lib_path: the library is numbered among the children of its parent
LibPathParentRelative(self) ==
    PathJoin(package_path(self),
             "lib_" \o Dec(1 + ((self.id - 1) % self.targets_per_level)))

lib_path(self) ==
    PathJoin(package_path(self), "lib_" \o Dec(self.package_relative_index))

lib_name(self) ==
    Intersperse([i \in 1..Len(self.parents) |-> "Pkg" \o Dec(i)], "_")
        \o "_Lib" \o Dec(self.package_relative_index)

build_file(self) == PathJoin(lib_path(self), "BUILD.bazel")

(***************************************************************************)
(* ID::children.  The result is [panic, ids].  For the root                *)
(* package_relative_index is 0 and `package_relative_index - 1` leaves the *)
(* u64 range.  What happens then depends on the build: `checks` is TRUE    *)
(* when overflow checks are compiled in (the call panics in the first      *)
(* iteration) and FALSE when they are not (the arithmetic wraps modulo     *)
(* 2^64).  Every caller draws `checks` from BOOLEAN.  A wrapped value      *)
(* v >= 2^63 is written as the negative number v - 2^64, so that           *)
(* k * (0 - 1) + i + 1 is the integer -k + i + 1 (0 when i = k - 1).       *)
(***************************************************************************)
\* mutant of children: the position is counted from the parent's position, not from
\* the parent's position minus one
ChildrenPositionFromZero(self, checks) ==
    IF Len(self.parents) >= self.max_depth THEN [panic |-> FALSE, ids |-> <<>>]
    ELSE IF self.package_relative_index = 0 /\ self.targets_per_level > 0 /\ checks
    THEN [panic |-> TRUE, ids |-> <<>>]
    ELSE [panic |-> FALSE,
          ids |-> [n \in 1..self.targets_per_level |->
                    [id |-> self.id * self.targets_per_level + (n - 1),
                     parents |-> Append(self.parents, self),
                     package_relative_index |->
                         self.targets_per_level * self.package_relative_index + (n - 1) + 1,
                     targets_per_level |-> self.targets_per_level,
                     max_depth |-> self.max_depth]]]

children(self, checks) ==
    IF Len(self.parents) >= self.max_depth THEN [panic |-> FALSE, ids |-> <<>>]
    ELSE IF self.package_relative_index = 0 /\ self.targets_per_level > 0 /\ checks
    THEN [panic |-> TRUE, ids |-> <<>>]
    ELSE [panic |-> FALSE,
          ids |-> [n \in 1..self.targets_per_level |->
                    [id |-> self.id * self.targets_per_level + (n - 1),
                     parents |-> Append(self.parents, self),
                     package_relative_index |->
                         self.targets_per_level * (self.package_relative_index - 1) + (n - 1) + 1,
                     targets_per_level |-> self.targets_per_level,
                     max_depth |-> self.max_depth]]]

(***************************************************************************)
(* The tree the claims speak of, described without the addressing code:    *)
(* level L holds k^L nodes, numbered level by level from the root, so the  *)
(* tree of height d has 1 + k + ... + k^d indices.                         *)
(***************************************************************************)
RECURSIVE SumOfLevels(_, _)
SumOfLevels(k, d) == IF d < 0 THEN 0 ELSE Pow(k, d) + SumOfLevels(k, d - 1)

TreeIndices(k, d) == 0..(SumOfLevels(k, d) - 1)

RECURSIVE LevelFrom(_, _, _)
LevelFrom(i, k, L) == IF i < SumOfLevels(k, L) THEN L ELSE LevelFrom(i, k, L + 1)

DepthOf(i, k) == LevelFrom(i, k, 0)

(***************************************************************************)
(* SpecAddr: the addressing functions applied to every index of the tree.  *)
(***************************************************************************)
NotCalled == [panic |-> FALSE, ids |-> <<"not called">>]

NoTasks == [i \in {} |-> "spawned"]

NoCalls == [i \in {} |-> <<>>]

InitAddr ==
    /\ targets_per_level \in 2..MaxK
    /\ height \in 0..MaxDepth
    /\ files_per_target = 0
    /\ node = ID_new(0, targets_per_level, height)
    /\ kids = NotCalled
    /\ driver = "addressing"
    /\ next = 0
    /\ active = 0
    /\ task = NoTasks
    /\ calls = NoCalls
    /\ written = {}

AddressOf ==
    /\ driver = "addressing"
    /\ \E i \in 0..(num_nodes_in_ntree(targets_per_level, height) - 1) :
          node' = ID_new(i, targets_per_level, height)
    /\ kids' = NotCalled
    /\ UNCHANGED <<targets_per_level, height, files_per_target,
                   driver, next, active, task, calls, written>>

CallChildren ==
    /\ driver = "addressing"
    /\ kids = NotCalled
    /\ \E checks \in BOOLEAN : kids' = children(node, checks)
    /\ UNCHANGED <<targets_per_level, height, files_per_target,
                   node, driver, next, active, task, calls, written>>

NextAddr == AddressOf \/ CallChildren

SpecAddr == InitAddr /\ [][NextAddr]_vars

(***************************************************************************)
(* The run.  main wipes and recreates the output root, computes num_nodes, *)
(* streams 0..num_nodes through for_each_concurrent(64, emit_build_file),  *)
(* then writes WORKSPACE, .bazelversion and main.m and returns Ok.         *)
(*                                                                         *)
(* emit_build_file spawns a tokio task and awaits it; the task runs        *)
(* handle_root or handle_node.  Every filesystem call of the handlers is   *)
(* unwrapped: a failure panics the task, the JoinHandle yields Err and the *)
(* unwrap of line 55 panics main.                                          *)
(***************************************************************************)
MaxRunNodes == 7     \* Spec: only trees of at most this many nodes are run
MaxFiles == 1        \* Spec: files_per_target ranges over 0..MaxFiles
MaxStubPairs == 5    \* Spec: only runs that write at most this many stub pairs
ConcurrencyLimit == 64

NumNodes == num_nodes_in_ntree(targets_per_level, height)

File(dir, name, by, deps) == [dir |-> dir, name |-> name, by |-> by, deps |-> deps]

Main == -1           \* `by` of the files main itself writes

\* handle_root, lines 198-201: "//pkg_1/lib_{i}" for i in 1..=targets_per_level
handle_root_deps(k) == [i \in 1..k |-> "//pkg_1/lib_" \o Dec(i)]

\* handle_node, lines 334-339: "//{lib_path}" of every child
handle_node_deps(self, checks) ==
    LET c == children(self, checks)
    IN  [n \in 1..Len(c.ids) |-> "//" \o lib_path(c.ids[n])]

\* write_objc_files: the header and the implementation of stub j
HdrFile(self, j) ==
    File(lib_path(self), lib_name(self) \o "_Hdr" \o Dec(j) \o ".h", self.id, <<>>)

SrcFile(self, j) ==
    File(lib_path(self), lib_name(self) \o "_Src" \o Dec(j) \o ".m", self.id, <<>>)

\* the files write_objc_files has created once n File::create calls succeeded.
\* The stubs are written through a BufWriter that is never flushed explicitly:
\* the few lines of a stub stay in its buffer until it is dropped, and an error
\* of that last write is discarded, so that only File::create can fail here.
ObjcFilesAfter(self, n) ==
    {HdrFile(self, j) : j \in 1..((n + 1) \div 2)} \cup {SrcFile(self, j) : j \in 1..(n \div 2)}

\* mutant of BelowLimit: the comparison admits one future more
BelowLimitOrEqual == active <= ConcurrencyLimit

\* for_each_concurrent(64, ..): a further future is taken only below the limit
BelowLimit == active < ConcurrencyLimit

Init ==
    /\ targets_per_level \in 2..MaxK
    /\ height \in 0..MaxDepth
    /\ SumOfLevels(targets_per_level, height) <= MaxRunNodes
    /\ files_per_target \in 0..MaxFiles
    /\ SumOfLevels(targets_per_level, height) * files_per_target <= MaxStubPairs
    /\ node = ID_new(0, targets_per_level, height)
    /\ kids = NotCalled
    /\ driver = "start"
    /\ next = 0
    /\ active = 0
    /\ task = NoTasks
    /\ calls = NoCalls
    /\ written = {}

\* main, lines 432-433: remove_dir_all(..).unwrap_or(()); create_dir_all(..)?
Bootstrap ==
    /\ driver = "start"
    /\ driver' \in {"stream", "error"}
    /\ UNCHANGED <<targets_per_level, height, files_per_target,
                   node, kids, next, active, task, calls, written>>

\* for_each_concurrent: with fewer than 64 futures it takes the next index of
\* the stream and polls emit_build_file(i), which spawns the task
PollStream ==
    /\ driver = "stream"
    /\ next < NumNodes
    /\ BelowLimit
    /\ task' = task @@ (next :> "spawned")
    /\ calls' = calls @@ (next :> <<>>)
    /\ next' = next + 1
    /\ active' = active + 1
    /\ UNCHANGED <<targets_per_level, height, files_per_target,
                   node, kids, driver, written>>

\* emit_build_file, node_id == 0: handle_root creates BUILD.bazel in the root
\* and writes the application target; File::create or writeln! may fail
HandleRoot(i) ==
    /\ i \in DOMAIN task /\ task[i] = "spawned" /\ i = 0
    /\ calls' = [calls EXCEPT ![i] = Append(@, "handle_root")]
    /\ \/ /\ written' = written \cup
                 {File("", "BUILD.bazel", i, handle_root_deps(targets_per_level))}
          /\ task' = [task EXCEPT ![i] = "finished"]
       \/ /\ written' = written
          /\ task' = [task EXCEPT ![i] = "panicked"]
    /\ UNCHANGED <<targets_per_level, height, files_per_target,
                   node, kids, driver, next, active>>

\* the files handle_node has completed when it runs to its end
NodeFiles(self, checks, fpt) ==
    {File(lib_path(self), "BUILD.bazel", self.id, handle_node_deps(self, checks))}
        \cup ObjcFilesAfter(self, 2 * fpt)

\* the files handle_node leaves when one of its filesystem calls fails:
\* nothing (create_dir_all or the BUILD file failed), or the BUILD file and the
\* stubs created before the failing File::create; with files_per_target >= 2
\* write_objc_files runs again over complete stubs and may fail then
NodeFilesAtFailure(self, checks, fpt) ==
    {{}} \cup
    {{File(lib_path(self), "BUILD.bazel", self.id, handle_node_deps(self, checks))}
        \cup ObjcFilesAfter(self, n) :
            n \in 0..(IF fpt >= 2 THEN 2 * fpt ELSE 2 * fpt - 1)}

\* emit_build_file, node_id > 0: ID::new, then handle_node
HandleNode(i) ==
    /\ i \in DOMAIN task /\ task[i] = "spawned" /\ i # 0
    /\ calls' = [calls EXCEPT ![i] = Append(@, "handle_node")]
    /\ \E checks \in BOOLEAN :
          LET id == ID_new(i, targets_per_level, height)
          IN  \/ /\ ~children(id, checks).panic
                 /\ written' = written \cup NodeFiles(id, checks, files_per_target)
                 /\ task' = [task EXCEPT ![i] = "finished"]
              \/ /\ \E fs \in NodeFilesAtFailure(id, checks, files_per_target) :
                       written' = written \cup fs
                 /\ task' = [task EXCEPT ![i] = "panicked"]
    /\ UNCHANGED <<targets_per_level, height, files_per_target,
                   node, kids, driver, next, active>>

\* mutant of Join: the Err of the JoinHandle is dropped instead of unwrapped,
\* the future of a failed task ends like any other and main goes on
JoinErrIgnored(i) ==
    /\ driver = "stream"
    /\ i \in DOMAIN task
    /\ active > 0
    /\ \/ task[i] = "finished" /\ task' = [task EXCEPT ![i] = "joined"]
       \/ task[i] = "panicked" /\ task' = task
    /\ active' = active - 1
    /\ UNCHANGED <<targets_per_level, height, files_per_target,
                   node, kids, driver, next, calls, written>>

\* the JoinHandle of task i resolves: Ok ends the future, Err panics main
Join(i) ==
    /\ driver = "stream"
    /\ i \in DOMAIN task
    /\ \/ /\ task[i] = "finished"
          /\ task' = [task EXCEPT ![i] = "joined"]
          /\ active' = active - 1
          /\ driver' = driver
       \/ /\ task[i] = "panicked"
          /\ task' = task
          /\ active' = active
          /\ driver' = "panicked"
    /\ UNCHANGED <<targets_per_level, height, files_per_target,
                   node, kids, next, calls, written>>

\* for_each_concurrent is Ready: the stream is exhausted and no future is left
StreamDone ==
    /\ driver = "stream"
    /\ next >= NumNodes
    /\ active = 0
    /\ driver' = "post"
    /\ UNCHANGED <<targets_per_level, height, files_per_target,
                   node, kids, next, active, task, calls, written>>

PostFiles == <<File("", "WORKSPACE", Main, <<>>),
               File("", ".bazelversion", Main, <<>>),
               File("", "main.m", Main, <<>>)>>

\* main, lines 452-464: copy GEN_WORKSPACE, write .bazelversion and main.m, Ok
PostGenerate ==
    /\ driver = "post"
    /\ \/ /\ written' = written \cup {PostFiles[n] : n \in 1..3}
          /\ driver' = "done"
       \/ /\ \E m \in 0..2 : written' = written \cup {PostFiles[n] : n \in 1..m}
          /\ driver' = "panicked"
    /\ UNCHANGED <<targets_per_level, height, files_per_target,
                   node, kids, next, active, task, calls>>

\* what main does: it is polled by block_on until it returns or panics
DriverStep ==
    \/ Bootstrap
    \/ PollStream
    \/ \E i \in 0..(next - 1) : Join(i)
    \/ StreamDone
    \/ PostGenerate

\* what the runtime's workers do: they run the spawned tasks
TaskStep ==
    \/ \E i \in 0..(next - 1) : HandleRoot(i)
    \/ \E i \in 0..(next - 1) : HandleNode(i)

Next == DriverStep \/ TaskStep

Spec == Init /\ [][Next]_vars

(***************************************************************************)
(* SpecLive: the run, on the smaller trees, with the fairness the runtime  *)
(* gives: main is polled                                                   *)
(* until it returns, every spawned task is run, and a resolved JoinHandle  *)
(* wakes the future awaiting it.  No fairness is asked of a filesystem     *)
(* failure.                                                                *)
(***************************************************************************)
MaxLiveNodes == 4    \* SpecLive: only trees of at most this many nodes are run

InitLive == Init /\ SumOfLevels(targets_per_level, height) <= MaxLiveNodes

Fairness == WF_vars(DriverStep) /\ WF_vars(TaskStep)

SpecLive == InitLive /\ [][Next]_vars /\ Fairness

(***************************************************************************)
(* SpecCap: for_each_concurrent on trees of more than 64 nodes, followed   *)
(* by the number of futures it holds (the futures are interchangeable for  *)
(* the limit): it takes an index while fewer than 64 futures are held, a   *)
(* future ends when its task is joined, a failed task panics main.         *)
(***************************************************************************)
CapHeight == 5       \* SpecCap: height of the trees

InitCap ==
    /\ targets_per_level \in 2..MaxK
    /\ height = CapHeight
    /\ files_per_target = 0
    /\ node = ID_new(0, targets_per_level, height)
    /\ kids = NotCalled
    /\ driver = "stream"
    /\ next = 0
    /\ active = 0
    /\ task = NoTasks
    /\ calls = NoCalls
    /\ written = {}

CapPollStream ==
    /\ driver = "stream"
    /\ next < NumNodes
    /\ BelowLimit
    /\ next' = next + 1
    /\ active' = active + 1
    /\ UNCHANGED <<targets_per_level, height, files_per_target,
                   node, kids, driver, task, calls, written>>

CapJoin ==
    /\ driver = "stream"
    /\ active > 0
    /\ \/ active' = active - 1 /\ driver' = driver
       \/ active' = active /\ driver' = "panicked"
    /\ UNCHANGED <<targets_per_level, height, files_per_target,
                   node, kids, next, task, calls, written>>

CapStreamDone ==
    /\ driver = "stream"
    /\ next >= NumNodes
    /\ active = 0
    /\ driver' = "post"
    /\ UNCHANGED <<targets_per_level, height, files_per_target,
                   node, kids, next, active, task, calls, written>>

NextCap == CapPollStream \/ CapJoin \/ CapStreamDone

SpecCap == InitCap /\ [][NextCap]_vars

(***************************************************************************)
(* Claims about the addressing functions (checked under SpecAddr).         *)
(***************************************************************************)
KidsCalled == kids # NotCalled

\* C1 (as claimed): for a non-root node n with len(n.parents) < max_depth, the
\* index of every child returned by n.children() resolves through ID::new to the
\* library path of that child, the path n declares as a dependency.
C1_ChildIndexResolves ==
    (node.id # 0 /\ KidsCalled /\ ~kids.panic /\ Len(node.parents) < height) =>
        \A n \in 1..Len(kids.ids) :
            lib_path(ID_new(kids.ids[n].id, targets_per_level, height))
                = lib_path(kids.ids[n])

\* C2 (as claimed): the chain built by ID::new for a non-root index holds no
\* entry with index 0 and its length is the node's depth.
C2_RootNotInChain ==
    node.id # 0 =>
        /\ \A j \in 1..Len(node.parents) : node.parents[j].id # 0
        /\ Len(node.parents) = DepthOf(node.id, targets_per_level)

\* C2 (amended): the chain built by ID::new for a non-root index ends with the
\* root: its last entry, and no other, has index 0; its length is the node's depth.
C2_ChainEndsAtRoot ==
    node.id # 0 =>
        /\ Len(node.parents) = DepthOf(node.id, targets_per_level)
        /\ Len(node.parents) >= 1
        /\ \A j \in 1..Len(node.parents) :
              (node.parents[j].id = 0) <=> (j = Len(node.parents))

C2_Witness ==
    /\ node.id # 0
    /\ Len(node.parents) >= 2
    /\ node.parents[Len(node.parents)].id = 0

C4_ChildrenEmptyIffAtMaxDepth ==
    KidsCalled =>
        /\ ~kids.panic
        /\ (Len(kids.ids) = 0) <=> (Len(node.parents) = height)
        /\ Len(node.parents) < height => Len(kids.ids) = targets_per_level

\* C5: for every non-root index the first entry of the chain is the nearest
\* parent, (index - 1) / k, and each later entry is the parent of the entry
\* before it.
C5_NearestParentFirst ==
    node.id # 0 =>
        /\ node.parents[1].id = (node.id - 1) \div targets_per_level
        /\ \A j \in 2..Len(node.parents) :
              node.parents[j].id = (node.parents[j - 1].id - 1) \div targets_per_level

C5_Witness ==
    /\ Len(node.parents) >= 3
    /\ node.parents[1].id # (node.id \div targets_per_level)

(***************************************************************************)
(* Claims about the run.                                                   *)
(***************************************************************************)
Tasks == DOMAIN task

AnyTaskPanicked == \E i \in Tasks : task[i] = "panicked"

FsFailure == driver = "error" \/ AnyTaskPanicked

PostWritten == \E f \in written : f.by = Main

\* the futures held by for_each_concurrent are the tasks not yet joined
ActiveCountsFutures == active = Cardinality({i \in Tasks : task[i] # "joined"})

EmittedOnceEach ==
    /\ Tasks = TreeIndices(targets_per_level, height)
    /\ Cardinality(Tasks) = SumOfLevels(targets_per_level, height)
    /\ \A i \in Tasks :
          calls[i] = IF i = 0 THEN <<"handle_root">> ELSE <<"handle_node">>

AtMostOnceEach ==
    /\ Tasks \subseteq TreeIndices(targets_per_level, height)
    /\ \A i \in Tasks : Len(calls[i]) <= 1

IsPrefix(s, t) == Len(s) <= Len(t) /\ SubSeq(t, 1, Len(s)) = s

C7_NoSharedFile ==
    /\ Cardinality({lib_path(ID_new(i, targets_per_level, height)) : i \in Tasks \ {0}})
          = Cardinality(Tasks \ {0})
    /\ Cardinality({<<f.dir, f.name>> : f \in written}) = Cardinality(written)
    /\ LET nodeFiles == {f \in written : f.by > 0}
       IN  /\ Cardinality({f.dir : f \in nodeFiles}) = Cardinality({f.by : f \in nodeFiles})
           /\ Cardinality({<<f.dir, f.by>> : f \in nodeFiles})
                 = Cardinality({f.by : f \in nodeFiles})
           /\ \A f \in nodeFiles : f.dir # ""
           /\ \A d, e \in {f.dir : f \in nodeFiles} : ~IsPrefix(d \o "/", e)

C7_Witness ==
    /\ height >= 2
    /\ \A i \in TreeIndices(targets_per_level, height) :
          i \in Tasks /\ task[i] = "finished"

NothingStartedAfterFailure ==
    /\ driver' = driver
    /\ next' = next
    /\ DOMAIN task' = DOMAIN task
    /\ \A f \in written' \ written : f.by # Main

C9_AtMostLimitInFlight == active <= ConcurrencyLimit

C9_Witness ==
    /\ active = ConcurrencyLimit
    /\ next < NumNodes
    /\ NumNodes > ConcurrencyLimit

BuildFiles == {f \in written : f.name = "BUILD.bazel"}

EmittedLibDirs == {f.dir : f \in {g \in BuildFiles : g.by > 0}}

DeclaredBy(label) == {f \in BuildFiles : \E n \in 1..Len(f.deps) : f.deps[n] = label}

\* C10 (as claimed, Spec): after a complete run, for every k >= 2 and every
\* height d >= 0, every dependency declared in an emitted build description,
\* the root's included, is the library path of a node emitted in the run, and
\* every emitted non-root library path is declared by exactly one build
\* description.
C10_DependenciesClosed ==
    driver = "done" =>
        /\ \A f \in BuildFiles : \A n \in 1..Len(f.deps) :
              \E dir \in EmittedLibDirs : f.deps[n] = "//" \o dir
        /\ \A dir \in EmittedLibDirs :
              Cardinality(DeclaredBy("//" \o dir)) = 1
        /\ Cardinality(EmittedLibDirs) = Cardinality(Tasks \ {0})

====
